---- MODULE Spec2Model ----
(***************************************************************************)
(* gerber-types: rendering of Gerber (RS-274X) command values to text.     *)
(*                                                                         *)
(* The crate's lib.rs declares the modules types, attributes, codegen,     *)
(* coordinates and errors and holds the unit tests of the GerberCode       *)
(* trait.  The value types and the to_code implementations are modelled    *)
(* here as operators on tagged records; the unit tests of lib.rs are       *)
(* modelled as sets of (input, expected text) pairs.  Text is a TLA+       *)
(* string, Option<T> is a sequence of length 0 (None) or 1 (Some).         *)
(***************************************************************************)
EXTENDS Integers, Sequences, FiniteSets, TLC

VARIABLES subject, result, expected, prev, sink

vars == <<subject, result, expected, prev, sink>>

(***************************************************************************)
(* Bounds of the model.                                                    *)
(***************************************************************************)
MaxCoord == 2
MaxMantissa == 30
MaxScale == 2
MaxDim == 3
MaxVertices == 4
MaxRepeat == 2
MaxFormatDigits == 6
MaxVec == 3

(***************************************************************************)
(* Program constants.                                                      *)
(***************************************************************************)
I32Max == 2147483647

(***************************************************************************)
(* Option<T>.                                                              *)
(***************************************************************************)
None == <<>>

Some(v) == <<v>>

IsSome(o) == Len(o) = 1

Unwrap(o) == o[1]

Option(S) == {None} \cup {Some(v) : v \in S}

(***************************************************************************)
(* GerberResult<String>: the text, or an error kind with its cause.        *)
(***************************************************************************)
Ok(t) == [ok |-> TRUE, text |-> t, kind |-> "", cause |-> ""]

Err(k, c) == [ok |-> FALSE, text |-> "", kind |-> k, cause |-> c]

\* r1 then r2, as two try!-ed renders whose texts are concatenated: the
\* first error is returned, the second render is not reached.
AndThen(r1, r2) ==
    IF ~r1.ok THEN r1
    ELSE IF ~r2.ok THEN r2
    ELSE Ok(r1.text \o r2.text)

(***************************************************************************)
(* Numeric formatter: signed integers.                                     *)
(***************************************************************************)
Digit(d) == SubSeq("0123456789", d + 1, d + 1)

RECURSIVE NatToString(_)
NatToString(n) ==
    IF n < 10 THEN Digit(n)
    ELSE NatToString(n \div 10) \o Digit(n % 10)

IntToString(n) ==
    IF n < 0 THEN "-" \o NatToString(-n) ELSE NatToString(n)

(***************************************************************************)
(* Numeric formatter: decimal magnitudes (f64).  A finite magnitude is     *)
(* m / 10^s, as its literal is written (30.60 is m = 3060, s = 2); NaN     *)
(* and the infinity are the non-finite values.                             *)
(***************************************************************************)
Fin(m, s) == [ty |-> "f64", k |-> "fin", m |-> m, s |-> s]

NaN == [ty |-> "f64", k |-> "NaN", m |-> 0, s |-> 0]

Infinity == [ty |-> "f64", k |-> "inf", m |-> 0, s |-> 0]

RECURSIVE Pow10(_)
Pow10(k) == IF k = 0 THEN 1 ELSE 10 * Pow10(k - 1)

\* The k low decimal digits of n, most significant first.
RECURSIVE FracDigits(_, _)
FracDigits(n, k) ==
    IF k = 0 THEN "" ELSE FracDigits(n \div 10, k - 1) \o Digit(n % 10)

RECURSIVE TrimTrailingZeros(_)
TrimTrailingZeros(t) ==
    IF Len(t) > 0 /\ SubSeq(t, Len(t), Len(t)) = "0"
    THEN TrimTrailingZeros(SubSeq(t, 1, Len(t) - 1))
    ELSE t

f64_to_code(d) ==
    IF d.k # "fin" THEN Err("ConversionError", d.k)
    ELSE LET int  == NatToString(d.m \div Pow10(d.s))
             frac == TrimTrailingZeros(FracDigits(d.m % Pow10(d.s), d.s))
         IN  Ok(IF frac = "" THEN int ELSE int \o "." \o frac)

(***************************************************************************)
(* Coordinates and CoordinateOffset.                                       *)
(***************************************************************************)
Coordinates(x, y) == [ty |-> "Coordinates", x |-> x, y |-> y]

Coordinates_new(x, y) == Coordinates(Some(x), Some(y))

Coordinates_at_x(x) == Coordinates(Some(x), None)

Coordinates_at_y(y) == Coordinates(None, Some(y))

CoordinateOffset(x, y) == [ty |-> "CoordinateOffset", x |-> x, y |-> y]

CoordinateOffset_new(x, y) == CoordinateOffset(Some(x), Some(y))

CoordinateOffset_at_y(y) == CoordinateOffset(None, Some(y))

\* One optional axis: the letter and the integer, or nothing.
Axis(letter, o) ==
    IF IsSome(o) THEN letter \o IntToString(Unwrap(o)) ELSE ""

Coordinates_to_code(c) == Ok(Axis("X", c.x) \o Axis("Y", c.y))

CoordinateOffset_to_code(c) == Ok(Axis("I", c.x) \o Axis("J", c.y))

(***************************************************************************)
(* Operation.                                                              *)
(***************************************************************************)
Interpolate(c, o) ==
    [ty |-> "Operation", op |-> "Interpolate", coords |-> c, offset |-> o]

Move(c) == [ty |-> "Operation", op |-> "Move", coords |-> c, offset |-> None]

Flash(c) == [ty |-> "Operation", op |-> "Flash", coords |-> c, offset |-> None]

OpSuffix(op) ==
    CASE op = "Interpolate" -> "D01"
      [] op = "Move"        -> "D02"
      [] op = "Flash"       -> "D03"

Operation_to_code(o) ==
    LET off == IF o.op = "Interpolate" /\ IsSome(o.offset)
               THEN CoordinateOffset_to_code(Unwrap(o.offset))
               ELSE Ok("")
    IN  AndThen(AndThen(Coordinates_to_code(o.coords), off),
                Ok(OpSuffix(o.op) \o "*"))

(***************************************************************************)
(* Function codes: GCode, MCode, DCode and the FunctionCode union.         *)
(***************************************************************************)
Comment(text) == [ty |-> "GCode", g |-> "Comment", text |-> text]

InterpolationMode(mode) ==
    [ty |-> "GCode", g |-> "InterpolationMode", mode |-> mode]

RegionMode(on) == [ty |-> "GCode", g |-> "RegionMode", on |-> on]

QuadrantMode(quadrant) ==
    [ty |-> "GCode", g |-> "QuadrantMode", quadrant |-> quadrant]

EndOfFile == [ty |-> "MCode", m |-> "EndOfFile"]

SelectAperture(code) == [ty |-> "DCode", d |-> "SelectAperture", code |-> code]

DCode_Operation(o) == [ty |-> "DCode", d |-> "Operation", operation |-> o]

FunctionCode(payload) == [ty |-> "FunctionCode", fc |-> payload]

GCode_to_code(g) ==
    CASE g.g = "Comment" -> Ok("G04 " \o g.text \o " *")
      [] g.g = "InterpolationMode" ->
            Ok(CASE g.mode = "Linear"                   -> "G01*"
                 [] g.mode = "ClockwiseCircular"        -> "G02*"
                 [] g.mode = "CounterclockwiseCircular" -> "G03*")
      [] g.g = "RegionMode" -> Ok(IF g.on THEN "G36*" ELSE "G37*")
      [] g.g = "QuadrantMode" ->
            Ok(CASE g.quadrant = "Single" -> "G74*"
                 [] g.quadrant = "Multi"  -> "G75*")

MCode_to_code(m) == Ok("M02*")

DCode_to_code(d) ==
    CASE d.d = "SelectAperture" -> Ok("D" \o IntToString(d.code) \o "*")
      [] d.d = "Operation"      -> Operation_to_code(d.operation)

FunctionCode_to_code(f) ==
    CASE f.fc.ty = "GCode" -> GCode_to_code(f.fc)
      [] f.fc.ty = "MCode" -> MCode_to_code(f.fc)
      [] f.fc.ty = "DCode" -> DCode_to_code(f.fc)

(***************************************************************************)
(* Apertures.                                                              *)
(***************************************************************************)
Circle(diameter, hole) ==
    [shape |-> "Circle", diameter |-> diameter, hole_diameter |-> hole]

Rectangular(shape, x, y, hole) ==
    [shape |-> shape, x |-> x, y |-> y, hole_diameter |-> hole]

Polygon(diameter, vertices, rotation, hole) ==
    [shape |-> "Polygon", diameter |-> diameter, vertices |-> vertices,
     rotation |-> rotation, hole_diameter |-> hole]

ApertureDefinition(code, aperture) ==
    [ty |-> "ApertureDefinition", code |-> code, aperture |-> aperture]

\* An optional trailing decimal field: "X" and the number, or nothing.
OptField(o) ==
    IF IsSome(o) THEN AndThen(Ok("X"), f64_to_code(Unwrap(o))) ELSE Ok("")

\* Polygon's optional rotation and hole diameter: the grammar's fields are
\* positional, so a present hole diameter forces a rotation field.
PolygonTail(rotation, hole) ==
    CASE IsSome(rotation) -> AndThen(OptField(rotation), OptField(hole))
      [] ~IsSome(rotation) /\ IsSome(hole) -> AndThen(Ok("X0"), OptField(hole))
      [] OTHER -> Ok("")

Aperture_to_code(a) ==
    CASE a.shape = "Circle" ->
            AndThen(AndThen(Ok("C,"), f64_to_code(a.diameter)),
                    OptField(a.hole_diameter))
      [] a.shape \in {"Rectangle", "Obround"} ->
            AndThen(AndThen(AndThen(AndThen(
                Ok(IF a.shape = "Rectangle" THEN "R," ELSE "O,"),
                f64_to_code(a.x)), Ok("X")), f64_to_code(a.y)),
                OptField(a.hole_diameter))
      [] a.shape = "Polygon" ->
            AndThen(AndThen(AndThen(
                Ok("P,"), f64_to_code(a.diameter)),
                Ok("X" \o IntToString(a.vertices))),
                PolygonTail(a.rotation, a.hole_diameter))

ApertureDefinition_to_code(ad) ==
    AndThen(Ok(IntToString(ad.code)), Aperture_to_code(ad.aperture))

(***************************************************************************)
(* Extended codes and the Command union.                                   *)
(***************************************************************************)
CoordinateFormat(int, dec) ==
    [ty |-> "ExtendedCode", e |-> "CoordinateFormat", int |-> int, dec |-> dec]

Unit(unit) == [ty |-> "ExtendedCode", e |-> "Unit", unit |-> unit]

LoadPolarity(polarity) ==
    [ty |-> "ExtendedCode", e |-> "LoadPolarity", polarity |-> polarity]

StepAndRepeat_Open(rx, ry, dx, dy) ==
    [ty |-> "ExtendedCode", e |-> "StepAndRepeatOpen", repeat_x |-> rx,
     repeat_y |-> ry, distance_x |-> dx, distance_y |-> dy]

StepAndRepeat_Close == [ty |-> "ExtendedCode", e |-> "StepAndRepeatClose"]

DeleteAttribute(name) ==
    [ty |-> "ExtendedCode", e |-> "DeleteAttribute", name |-> name]

FileAttribute_Part_Other(name) ==
    [ty |-> "ExtendedCode", e |-> "FileAttribute", part |-> name]

ExtendedCode_ApertureDefinition(ad) ==
    [ty |-> "ExtendedCode", e |-> "ApertureDefinition", ad |-> ad]

Command(payload) == [ty |-> "Command", c |-> payload]

CoordinateFormat_to_code(int, dec) ==
    LET n == IntToString(int) \o IntToString(dec)
    IN  "%FSLAX" \o n \o "Y" \o n \o "*%"

StepAndRepeat_to_code(e) ==
    AndThen(AndThen(AndThen(AndThen(
        Ok("%SRX" \o IntToString(e.repeat_x) \o "Y" \o IntToString(e.repeat_y)
           \o "I"),
        f64_to_code(e.distance_x)), Ok("J")), f64_to_code(e.distance_y)),
        Ok("*%"))

ExtendedCode_to_code(e) ==
    CASE e.e = "CoordinateFormat" -> Ok(CoordinateFormat_to_code(e.int, e.dec))
      [] e.e = "Unit" ->
            Ok(IF e.unit = "Millimeters" THEN "%MOMM*%" ELSE "%MOIN*%")
      [] e.e = "LoadPolarity" ->
            Ok(IF e.polarity = "Dark" THEN "%LPD*%" ELSE "%LPC*%")
      [] e.e = "StepAndRepeatOpen" -> StepAndRepeat_to_code(e)
      [] e.e = "StepAndRepeatClose" -> Ok("%SR*%")
      [] e.e = "DeleteAttribute" -> Ok("%TD" \o e.name \o "*%")
      [] e.e = "FileAttribute" -> Ok("%TF.Part,Other," \o e.part \o "*%")
      [] e.e = "ApertureDefinition" ->
            AndThen(AndThen(Ok("%ADD"), ApertureDefinition_to_code(e.ad)),
                    Ok("*%"))

Command_to_code(c) ==
    CASE c.c.ty = "FunctionCode" -> FunctionCode_to_code(c.c)
      [] c.c.ty = "ExtendedCode" -> ExtendedCode_to_code(c.c)

(***************************************************************************)
(* The GerberCode trait: to_code of any value, and of a Vec of values.     *)
(***************************************************************************)
to_code(v) ==
    CASE v.ty = "f64"                -> f64_to_code(v)
      [] v.ty = "Coordinates"        -> Coordinates_to_code(v)
      [] v.ty = "CoordinateOffset"   -> CoordinateOffset_to_code(v)
      [] v.ty = "Operation"          -> Operation_to_code(v)
      [] v.ty = "GCode"              -> GCode_to_code(v)
      [] v.ty = "MCode"              -> MCode_to_code(v)
      [] v.ty = "DCode"              -> DCode_to_code(v)
      [] v.ty = "FunctionCode"       -> FunctionCode_to_code(v)
      [] v.ty = "ApertureDefinition" -> ApertureDefinition_to_code(v)
      [] v.ty = "ExtendedCode"       -> ExtendedCode_to_code(v)
      [] v.ty = "Command"            -> Command_to_code(v)

Vec(items) == [ty |-> "Vec", items |-> items]

\* The output sink of a sequence render: None is an in-memory buffer, which
\* accepts every write; Some(k) accepts k writes and rejects the next one.
SinkRejects(s, i) == IsSome(s) /\ i > Unwrap(s)

\* Elements i.. of items, rendered in input order onto acc.  The first
\* element that fails to render, or whose write the sink rejects, ends the
\* render with that error.
RECURSIVE VecFrom(_, _, _, _)
VecFrom(items, s, i, acc) ==
    IF i > Len(items) THEN Ok(acc)
    ELSE LET r == to_code(items[i])
         IN  IF ~r.ok THEN r
             ELSE IF SinkRejects(s, i) THEN Err("WriteError", "sink")
             ELSE VecFrom(items, s, i + 1,
                          IF i = 1 THEN r.text ELSE acc \o "\n" \o r.text)

\* A sequence render that does not stop at the first failure: it goes on
\* and returns the error of the last failing element.
RECURSIVE VecFromKeepGoing(_, _, _, _, _)
VecFromKeepGoing(items, s, i, acc, err) ==
    IF i > Len(items) THEN (IF err.ok THEN Ok(acc) ELSE err)
    ELSE LET r == to_code(items[i])
         IN  IF ~r.ok THEN VecFromKeepGoing(items, s, i + 1, acc, r)
             ELSE IF SinkRejects(s, i)
             THEN VecFromKeepGoing(items, s, i + 1, acc, Err("WriteError", "sink"))
             ELSE VecFromKeepGoing(items, s, i + 1,
                                   IF i = 1 THEN r.text ELSE acc \o "\n" \o r.text,
                                   err)

Vec_to_code_last_error(items, s) == VecFromKeepGoing(items, s, 1, "", Ok(""))

Vec_to_code(items, s) == VecFrom(items, s, 1, "")

Render(v, s) ==
    IF v.ty = "Vec" THEN Vec_to_code(v.items, s) ELSE to_code(v)

(***************************************************************************)
(* The unit tests of lib.rs: each assert_eq!(input.to_code().unwrap(),     *)
(* text) is one (input, expected) pair.                                    *)
(***************************************************************************)
Case(input, text) == [input |-> input, expected |-> text]

test_to_code == {Case(Comment("testcomment"), "G04 testcomment *")}

\* As test_vec_to_code would read if every element were followed by a line
\* break.
test_vec_to_code_trailing_break ==
    {Case(Vec(<<Comment("comment 1"), Comment("another one")>>),
          "G04 comment 1 *\nG04 another one *\n")}

test_vec_to_code ==
    {Case(Vec(<<Comment("comment 1"), Comment("another one")>>),
          "G04 comment 1 *\nG04 another one *")}

test_function_code_to_code ==
    {Case(FunctionCode(Comment("comment")), "G04 comment *")}

test_command_to_code ==
    {Case(Command(FunctionCode(Comment("comment"))), "G04 comment *")}

test_interpolation_mode ==
    {Case(Vec(<<InterpolationMode("Linear"),
                InterpolationMode("ClockwiseCircular"),
                InterpolationMode("CounterclockwiseCircular")>>),
          "G01*\nG02*\nG03*")}

test_region_mode ==
    {Case(Vec(<<RegionMode(TRUE), RegionMode(FALSE)>>), "G36*\nG37*")}

test_quadrant_mode ==
    {Case(Vec(<<QuadrantMode("Single"), QuadrantMode("Multi")>>),
          "G74*\nG75*")}

test_end_of_file == {Case(EndOfFile, "M02*")}

\* As test_coordinates would read if an absent axis were written as zero.
test_coordinates_absent_as_zero ==
    {Case(Coordinates(Some(10), Some(20)), "X10Y20"),
     Case(Coordinates(None, None), "X0Y0"),
     Case(Coordinates(Some(10), None), "X10Y0"),
     Case(Coordinates(None, Some(20)), "X0Y20"),
     Case(Coordinates(Some(0), Some(-400)), "X0Y-400")}

test_coordinates ==
    {Case(Coordinates(Some(10), Some(20)), "X10Y20"),
     Case(Coordinates(None, None), ""),
     Case(Coordinates(Some(10), None), "X10"),
     Case(Coordinates(None, Some(20)), "Y20"),
     Case(Coordinates(Some(0), Some(-400)), "X0Y-400")}

test_offset ==
    {Case(CoordinateOffset(Some(10), Some(20)), "I10J20"),
     Case(CoordinateOffset(None, None), ""),
     Case(CoordinateOffset(Some(10), None), "I10"),
     Case(CoordinateOffset(None, Some(20)), "J20"),
     Case(CoordinateOffset(Some(0), Some(-400)), "I0J-400")}

\* As test_operation_interpolate would read if an Interpolate without
\* offset wrote a zero offset.
test_operation_interpolate_zero_offset ==
    {Case(Interpolate(Coordinates_new(100, 200),
                      Some(CoordinateOffset_new(5, 10))),
          "X100Y200I5J10D01*"),
     Case(Interpolate(Coordinates_at_y(-200), None), "Y-200I0J0D01*"),
     Case(Interpolate(Coordinates_at_x(1), Some(CoordinateOffset_at_y(2))),
          "X1J2D01*")}

test_operation_interpolate ==
    {Case(Interpolate(Coordinates_new(100, 200),
                      Some(CoordinateOffset_new(5, 10))),
          "X100Y200I5J10D01*"),
     Case(Interpolate(Coordinates_at_y(-200), None), "Y-200D01*"),
     Case(Interpolate(Coordinates_at_x(1), Some(CoordinateOffset_at_y(2))),
          "X1J2D01*")}

test_operation_move == {Case(Move(Coordinates_new(23, 42)), "X23Y42D02*")}

test_operation_flash == {Case(Flash(Coordinates_new(23, 42)), "X23Y42D03*")}

test_select_aperture ==
    {Case(SelectAperture(10), "D10*"),
     Case(SelectAperture(2147483647), "D2147483647*")}

\* As test_coordinate_format would read if the two digit counts were
\* written in the other order.
test_coordinate_format_swapped == {Case(CoordinateFormat(2, 5), "%FSLAX52Y52*%")}

\* As test_coordinate_format would read if each digit count were doubled.
test_coordinate_format_doubled == {Case(CoordinateFormat(2, 5), "%FSLAX22Y55*%")}

test_coordinate_format == {Case(CoordinateFormat(2, 5), "%FSLAX25Y25*%")}

test_unit ==
    {Case(Unit("Millimeters"), "%MOMM*%"), Case(Unit("Inches"), "%MOIN*%")}

\* As test_aperture_circle_definition would read if the formatter dropped
\* the fraction.
test_aperture_circle_definition_truncated ==
    {Case(ApertureDefinition(10, Circle(Fin(40, 1), Some(Fin(20, 1)))),
          "10C,4X2"),
     Case(ApertureDefinition(11, Circle(Fin(45, 1), None)), "11C,4")}

test_aperture_circle_definition ==
    {Case(ApertureDefinition(10, Circle(Fin(40, 1), Some(Fin(20, 1)))),
          "10C,4X2"),
     Case(ApertureDefinition(11, Circle(Fin(45, 1), None)), "11C,4.5")}

\* As test_aperture_rectangular_definition would read if the formatter
\* kept a zero fraction.
test_aperture_rectangular_definition_zero_fraction ==
    {Case(ApertureDefinition(12,
              Rectangular("Rectangle", Fin(15, 1), Fin(225, 2),
                          Some(Fin(38, 1)))),
          "12R,1.5X2.25X3.8"),
     Case(ApertureDefinition(13,
              Rectangular("Rectangle", Fin(10, 1), Fin(10, 1), None)),
          "13R,1.0X1.0"),
     Case(ApertureDefinition(14,
              Rectangular("Obround", Fin(20, 1), Fin(45, 1), None)),
          "14O,2.0X4.5")}

test_aperture_rectangular_definition ==
    {Case(ApertureDefinition(12,
              Rectangular("Rectangle", Fin(15, 1), Fin(225, 2),
                          Some(Fin(38, 1)))),
          "12R,1.5X2.25X3.8"),
     Case(ApertureDefinition(13,
              Rectangular("Rectangle", Fin(10, 1), Fin(10, 1), None)),
          "13R,1X1"),
     Case(ApertureDefinition(14,
              Rectangular("Obround", Fin(20, 1), Fin(45, 1), None)),
          "14O,2X4.5")}

\* As test_aperture_polygon_definition would read if an absent rotation
\* were skipped before a present hole diameter.
test_aperture_polygon_definition_rotation_skipped ==
    {Case(ApertureDefinition(15, Polygon(Fin(45, 1), 3, None, None)),
          "15P,4.5X3"),
     Case(ApertureDefinition(16,
              Polygon(Fin(50, 1), 4, Some(Fin(306, 1)), None)),
          "16P,5X4X30.6"),
     Case(ApertureDefinition(17,
              Polygon(Fin(55, 1), 5, None, Some(Fin(18, 1)))),
          "17P,5.5X5X1.8")}

test_aperture_polygon_definition ==
    {Case(ApertureDefinition(15, Polygon(Fin(45, 1), 3, None, None)),
          "15P,4.5X3"),
     Case(ApertureDefinition(16,
              Polygon(Fin(50, 1), 4, Some(Fin(306, 1)), None)),
          "16P,5X4X30.6"),
     Case(ApertureDefinition(17,
              Polygon(Fin(55, 1), 5, None, Some(Fin(18, 1)))),
          "17P,5.5X5X0X1.8")}

\* As test_polarity_to_code would read if an extended code were ended like
\* a function code.
test_polarity_to_code_unclosed ==
    {Case(LoadPolarity("Dark"), "%LPD*"),
     Case(LoadPolarity("Clear"), "%LPC*")}

test_polarity_to_code ==
    {Case(LoadPolarity("Dark"), "%LPD*%"),
     Case(LoadPolarity("Clear"), "%LPC*%")}

test_step_and_repeat_to_code ==
    {Case(StepAndRepeat_Open(2, 3, Fin(20, 1), Fin(30, 1)), "%SRX2Y3I2J3*%"),
     Case(StepAndRepeat_Close, "%SR*%")}

test_delete_attribute_to_code == {Case(DeleteAttribute("foo"), "%TDfoo*%")}

test_file_attribute_to_code ==
    {Case(FileAttribute_Part_Other("foo"), "%TF.Part,Other,foo*%")}

Tests ==
    test_to_code \cup test_vec_to_code \cup test_function_code_to_code
    \cup test_command_to_code \cup test_interpolation_mode
    \cup test_region_mode \cup test_quadrant_mode \cup test_end_of_file
    \cup test_coordinates \cup test_offset \cup test_operation_interpolate
    \cup test_operation_move \cup test_operation_flash
    \cup test_select_aperture \cup test_coordinate_format \cup test_unit
    \cup test_aperture_circle_definition
    \cup test_aperture_rectangular_definition
    \cup test_aperture_polygon_definition \cup test_polarity_to_code
    \cup test_step_and_repeat_to_code \cup test_delete_attribute_to_code
    \cup test_file_attribute_to_code

(***************************************************************************)
(* The values a caller constructs, within the bounds.                      *)
(***************************************************************************)
CoordInts == (-MaxCoord .. MaxCoord) \cup {I32Max, -I32Max}

AllCoordinates == {Coordinates(x, y) : x \in Option(CoordInts), y \in Option(CoordInts)}

AllOffsets == {CoordinateOffset(x, y) : x \in Option(CoordInts), y \in Option(CoordInts)}

AllOperations ==
    {Interpolate(c, o) : c \in AllCoordinates, o \in Option(AllOffsets)}
    \cup {Move(c) : c \in AllCoordinates}
    \cup {Flash(c) : c \in AllCoordinates}

\* 30.60 and 4.50 are the decimal formatter's examples of a trailing zero.
Decimals ==
    {Fin(m, s) : m \in 0 .. MaxMantissa, s \in 0 .. MaxScale}
    \cup {Fin(3060, 2), Fin(450, 2), NaN, Infinity}

\* Aperture dimensions and step distances: 0.0, 0.5, 1.0, ... and the
\* non-finite values.
Dims == {Fin(5 * n, 1) : n \in 0 .. MaxDim} \cup {NaN, Infinity}

AllApertures ==
    {Circle(d, h) : d \in Dims, h \in Option(Dims)}
    \cup {Rectangular(sh, x, y, h) :
            sh \in {"Rectangle", "Obround"}, x \in Dims, y \in Dims,
            h \in Option(Dims)}
    \cup {Polygon(d, v, r, h) :
            d \in Dims, v \in 3 .. MaxVertices, r \in Option(Dims),
            h \in Option(Dims)}

AllApertureDefinitions == {ApertureDefinition(10, a) : a \in AllApertures}

Texts == {"", "c", "a b"}

AllGCodes ==
    {Comment(t) : t \in Texts}
    \cup {InterpolationMode(m) :
            m \in {"Linear", "ClockwiseCircular", "CounterclockwiseCircular"}}
    \cup {RegionMode(b) : b \in BOOLEAN}
    \cup {QuadrantMode(q) : q \in {"Single", "Multi"}}

AllDCodes ==
    {SelectAperture(c) : c \in {10, I32Max}}
    \cup {DCode_Operation(o) : o \in AllOperations}

AllExtendedCodes ==
    {CoordinateFormat(i, d) : i \in 0 .. MaxFormatDigits, d \in 0 .. MaxFormatDigits}
    \cup {Unit(u) : u \in {"Millimeters", "Inches"}}
    \cup {LoadPolarity(p) : p \in {"Dark", "Clear"}}
    \cup {StepAndRepeat_Open(rx, ry, dx, dy) :
            rx \in 1 .. MaxRepeat, ry \in 1 .. MaxRepeat, dx \in Dims, dy \in Dims}
    \cup {StepAndRepeat_Close}
    \cup {DeleteAttribute(n) : n \in Texts}
    \cup {FileAttribute_Part_Other(n) : n \in Texts}
    \cup {ExtendedCode_ApertureDefinition(ad) : ad \in AllApertureDefinitions}

\* The commands pushed onto a Vec<Command>: four that render, and two whose
\* render fails with different causes.
VecPool ==
    {Command(FunctionCode(InterpolationMode("Linear"))),
     Command(FunctionCode(EndOfFile)),
     Command(FunctionCode(DCode_Operation(Move(Coordinates(None, None))))),
     Command(Unit("Millimeters")),
     Command(ExtendedCode_ApertureDefinition(
                 ApertureDefinition(10, Circle(NaN, None)))),
     Command(StepAndRepeat_Open(1, 1, Infinity, Fin(0, 0)))}

(***************************************************************************)
(* The caller.  Values are immutable and consumed by one render: the       *)
(* caller constructs a value (subject), renders it (result) and drops it.  *)
(* expected is the text a unit test asserts for the subject; prev is the   *)
(* value rendered just before the subject was built, with its result (the  *)
(* previous decimal, or the payload a wrapper was built from); sink is the *)
(* output sink of a sequence render.                                       *)
(***************************************************************************)
NoValue == [ty |-> "None"]

Init ==
    /\ subject = NoValue
    /\ result = None
    /\ expected = None
    /\ prev = None
    /\ sink = None

Idle == subject = NoValue

New(v) ==
    /\ subject' = v
    /\ result' = None
    /\ expected' = None
    /\ prev' = None
    /\ sink' = None

\* The last rendered value and its result, kept beside the next value.
Last == IF IsSome(result)
        THEN Some([val |-> subject, res |-> Unwrap(result)])
        ELSE None

\* A decimal, built when idle or right after another decimal was rendered.
NewF64 ==
    /\ Idle \/ (subject.ty = "f64" /\ IsSome(result))
    /\ \E d \in Decimals :
        /\ subject' = d
        /\ result' = None
        /\ expected' = None
        /\ prev' = IF Idle THEN None ELSE Last
        /\ sink' = None

NewCoordinates == Idle /\ \E c \in AllCoordinates : New(c)

NewCoordinateOffset == Idle /\ \E c \in AllOffsets : New(c)

NewOperation == Idle /\ \E o \in AllOperations : New(o)

NewGCode == Idle /\ \E g \in AllGCodes : New(g)

NewMCode == Idle /\ New(EndOfFile)

NewDCode == Idle /\ \E d \in AllDCodes : New(d)

NewApertureDefinition == Idle /\ \E ad \in AllApertureDefinitions : New(ad)

NewExtendedCode == Idle /\ \E e \in AllExtendedCodes : New(e)

\* FunctionCode::GCode(g), FunctionCode::MCode(m), FunctionCode::DCode(d),
\* Command::FunctionCode(f), Command::ExtendedCode(e) of the subject.
Wrap ==
    /\ subject.ty \in {"GCode", "MCode", "DCode", "FunctionCode", "ExtendedCode"}
    /\ subject' = IF subject.ty \in {"GCode", "MCode", "DCode"}
                  THEN FunctionCode(subject)
                  ELSE Command(subject)
    /\ result' = None
    /\ expected' = None
    /\ prev' = Last
    /\ sink' = None

\* Vec::new(), to be rendered onto a sink.
NewVec ==
    /\ Idle
    /\ \E s \in Option(0 .. MaxVec) :
        /\ subject' = Vec(<<>>)
        /\ result' = None
        /\ expected' = None
        /\ prev' = None
        /\ sink' = s

\* v.push(c)
Push ==
    /\ subject.ty = "Vec"
    /\ expected = None
    /\ result = None
    /\ Len(subject.items) < MaxVec
    /\ \E c \in VecPool :
        /\ subject' = Vec(Append(subject.items, c))
        /\ UNCHANGED <<result, expected, prev, sink>>

\* A unit test constructs its input.
RunTest ==
    /\ Idle
    /\ \E t \in Tests :
        /\ subject' = t.input
        /\ result' = None
        /\ expected' = Some(t.expected)
        /\ prev' = None
        /\ sink' = None

\* subject.to_code()
ToCode ==
    /\ ~Idle
    /\ result = None
    /\ result' = Some(Render(subject, sink))
    /\ UNCHANGED <<subject, expected, prev, sink>>

\* The rendered value goes out of scope.
Drop ==
    /\ IsSome(result)
    /\ subject' = NoValue
    /\ result' = None
    /\ expected' = None
    /\ prev' = None
    /\ sink' = None

Next ==
    \/ NewF64
    \/ NewCoordinates
    \/ NewCoordinateOffset
    \/ NewOperation
    \/ NewGCode
    \/ NewMCode
    \/ NewDCode
    \/ NewApertureDefinition
    \/ NewExtendedCode
    \/ Wrap
    \/ NewVec
    \/ Push
    \/ RunTest
    \/ ToCode
    \/ Drop

Spec == Init /\ [][Next]_vars

(***************************************************************************)
(* Every unit test of lib.rs passes: the text rendered for a test's input  *)
(* is the text the test asserts.                                           *)
(***************************************************************************)
Rendered == IsSome(result)

Text == Unwrap(result).text

Succeeded == Rendered /\ Unwrap(result).ok

TestsPass ==
    IsSome(expected) /\ Rendered => Succeeded /\ Text = Unwrap(expected)

(***************************************************************************)
(* Text predicates used to state the properties below.                     *)
(***************************************************************************)
CharAt(t, i) == SubSeq(t, i, i)

StartsWith(t, p) == Len(t) >= Len(p) /\ SubSeq(t, 1, Len(p)) = p

EndsWith(t, p) == Len(t) >= Len(p) /\ SubSeq(t, Len(t) - Len(p) + 1, Len(t)) = p

\* The first position of character c in t, or 0.
IndexOf(t, c) ==
    IF \E i \in 1 .. Len(t) : CharAt(t, i) = c
    THEN CHOOSE i \in 1 .. Len(t) :
            CharAt(t, i) = c /\ \A j \in 1 .. i - 1 : CharAt(t, j) # c
    ELSE 0

\* The decimal text of an integer, by TLC's own conversion.
Decimal(n) == ToString(n)

\* t is the texts of the items, in order, with one line break between
\* consecutive texts and none before the first or after the last.
JoinedOf(items, t) ==
    LET n == Len(items)
        txt(i) == to_code(items[i]).text
        start[i \in 1 .. n] ==
            IF i = 1 THEN 1 ELSE start[i - 1] + Len(txt(i - 1)) + 1
    IN  IF n = 0 THEN t = ""
        ELSE /\ Len(t) = start[n] + Len(txt(n)) - 1
             /\ \A i \in 1 .. n :
                    SubSeq(t, start[i], start[i] + Len(txt(i)) - 1) = txt(i)
             /\ \A i \in 1 .. n - 1 : CharAt(t, start[i] + Len(txt(i))) = "\n"
             /\ CharAt(t, 1) # "\n"
             /\ CharAt(t, Len(t)) # "\n"

AllRender(items) == \A i \in 1 .. Len(items) : to_code(items[i]).ok

\* C1: a sequence of N >= 0 commands that each render, written to a sink
\* that accepts every write, renders as the elements' texts in input order
\* joined by single line breaks (N = 0: the empty text; N = 1: the
\* element's text), with no leading or trailing line break; and this is the
\* text the unit tests on sequences assert.
C1_VecJoin ==
    subject.ty = "Vec" /\ AllRender(subject.items)
    /\ ~SinkRejects(sink, Len(subject.items)) =>
        /\ Rendered => Succeeded /\ JoinedOf(subject.items, Text)
        /\ IsSome(expected) => JoinedOf(subject.items, Unwrap(expected))

C1_Witness ==
    /\ subject.ty = "Vec"
    /\ Len(subject.items) = 3
    /\ subject.items[1] # subject.items[2]
    /\ subject.items[2] # subject.items[3]
    /\ Succeeded
    /\ Len(Text) > 2

\* The error of element i of a sequence render: its own render's error, or
\* the sink's rejection of its write.
ElementError(items, s, i) ==
    IF ~to_code(items[i]).ok THEN to_code(items[i])
    ELSE Err("WriteError", "sink")

ElementFails(items, s, i) == ~to_code(items[i]).ok \/ SinkRejects(s, i)

\* C2: when an element of a sequence fails (its render fails with a
\* ConversionError, or the sink rejects its write with a WriteError), the
\* render of the sequence fails with the error of the first failing element
\* in input order, kind and cause unchanged, and gives no text.
C2_FirstError ==
    subject.ty = "Vec" /\ Rendered
    /\ (\E i \in 1 .. Len(subject.items) : ElementFails(subject.items, sink, i)) =>
        LET first == CHOOSE i \in 1 .. Len(subject.items) :
                        /\ ElementFails(subject.items, sink, i)
                        /\ \A j \in 1 .. i - 1 : ~ElementFails(subject.items, sink, j)
        IN  /\ ~Unwrap(result).ok
            /\ Unwrap(result) = ElementError(subject.items, sink, first)
            /\ Text = ""

C2_Witness ==
    /\ subject.ty = "Vec"
    /\ Len(subject.items) = 3
    /\ to_code(subject.items[1]).ok
    /\ ~to_code(subject.items[2]).ok
    /\ ~to_code(subject.items[3]).ok
    /\ to_code(subject.items[2]).cause # to_code(subject.items[3]).cause
    /\ Rendered
    /\ Unwrap(result) = Err("ConversionError", "NaN")

\* The text the coordinate rule gives an optional axis pair.
AxisRule(l1, l2, c) ==
    (IF IsSome(c.x) THEN l1 \o Decimal(Unwrap(c.x)) ELSE "")
    \o (IF IsSome(c.y) THEN l2 \o Decimal(Unwrap(c.y)) ELSE "")

CoordRule(c) ==
    IF c.ty = "Coordinates" THEN AxisRule("X", "Y", c) ELSE AxisRule("I", "J", c)

\* C3: Coordinates render as "X" and the decimal x if x is present, then
\* "Y" and the decimal y if y is present, CoordinateOffset the same with "I"
\* and "J"; the render never fails, an absent axis gives no character, both
\* absent give the empty text; and this is the text the unit tests assert.
C3_Coordinates ==
    subject.ty \in {"Coordinates", "CoordinateOffset"} =>
        /\ Rendered => Succeeded /\ Text = CoordRule(subject)
        /\ IsSome(expected) => Unwrap(expected) = CoordRule(subject)

C3_Witness ==
    /\ subject = CoordinateOffset(Some(0), Some(-400))
    /\ Succeeded
    /\ Text = "I0J-400"

\* The text the operation rule gives.
OperationRule(o) ==
    CoordRule(o.coords)
    \o (IF o.op = "Interpolate" /\ IsSome(o.offset)
        THEN CoordRule(Unwrap(o.offset)) ELSE "")
    \o (CASE o.op = "Interpolate" -> "D01"
          [] o.op = "Move" -> "D02"
          [] o.op = "Flash" -> "D03")
    \o "*"

\* C4: an Operation renders as its coordinates' text, then the offset's
\* text (Interpolate with an offset only), then D01 for Interpolate, D02
\* for Move, D03 for Flash, then "*"; and this is the text the unit tests
\* assert.
C4_Operation ==
    subject.ty = "Operation" =>
        /\ Rendered => Succeeded /\ Text = OperationRule(subject)
        /\ IsSome(expected) => Unwrap(expected) = OperationRule(subject)

C4_Witness ==
    /\ subject = Interpolate(Coordinates_at_x(1), Some(CoordinateOffset_at_y(2)))
    /\ Succeeded
    /\ Text = "X1J2D01*"

IsFinite(d) == d.k = "fin"

OptFinite(o) == IsSome(o) => IsFinite(Unwrap(o))

\* Every decimal field of the aperture is finite.
ApertureFinite(a) ==
    /\ OptFinite(a.hole_diameter)
    /\ CASE a.shape = "Circle" -> IsFinite(a.diameter)
         [] a.shape = "Polygon" -> IsFinite(a.diameter) /\ OptFinite(a.rotation)
         [] OTHER -> IsFinite(a.x) /\ IsFinite(a.y)

\* The text the aperture rule gives; num(d) is the formatter's text of d.
ApertureRule(ad) ==
    LET a == ad.aperture
        num(d) == f64_to_code(d).text
        hole == IF IsSome(a.hole_diameter)
                THEN "X" \o num(Unwrap(a.hole_diameter)) ELSE ""
    IN  Decimal(ad.code) \o
        (CASE a.shape = "Circle" -> "C," \o num(a.diameter) \o hole
           [] a.shape = "Rectangle" -> "R," \o num(a.x) \o "X" \o num(a.y) \o hole
           [] a.shape = "Obround" -> "O," \o num(a.x) \o "X" \o num(a.y) \o hole
           [] a.shape = "Polygon" ->
                "P," \o num(a.diameter) \o "X" \o Decimal(a.vertices) \o
                (CASE ~IsSome(a.rotation) /\ ~IsSome(a.hole_diameter) -> ""
                   [] IsSome(a.rotation) /\ ~IsSome(a.hole_diameter) ->
                        "X" \o num(Unwrap(a.rotation))
                   [] IsSome(a.rotation) /\ IsSome(a.hole_diameter) ->
                        "X" \o num(Unwrap(a.rotation)) \o hole
                   [] ~IsSome(a.rotation) /\ IsSome(a.hole_diameter) ->
                        "X0" \o hole))

\* C5: a Polygon aperture definition renders as
\* "<code>P,<diameter>X<vertices>" followed by nothing (no rotation, no
\* hole), "X<rotation>" (rotation only), "X<rotation>X<hole>" (both) or
\* "X0X<hole>" (hole only); Circle, Rectangle and Obround append "X<hole>"
\* when the hole diameter is present and nothing when it is absent; and
\* this is the text the unit tests assert.
C5_Aperture ==
    subject.ty = "ApertureDefinition" /\ ApertureFinite(subject.aperture) =>
        /\ Rendered => Succeeded /\ Text = ApertureRule(subject)
        /\ IsSome(expected) => Unwrap(expected) = ApertureRule(subject)

C5_Witness ==
    /\ subject.ty = "ApertureDefinition"
    /\ subject.aperture.shape = "Polygon"
    /\ ~IsSome(subject.aperture.rotation)
    /\ subject.aperture.hole_diameter = Some(Fin(15, 1))
    /\ subject.aperture.diameter = Fin(5, 1)
    /\ subject.aperture.vertices = 3
    /\ Succeeded
    /\ Text = "10P,0.5X3X0X1.5"

IsCoordinateFormat == subject.ty = "ExtendedCode" /\ subject.e = "CoordinateFormat"

\* C6: CoordinateFormat(i, d) renders as "%FSLAX" i d "Y" i d "*%": the
\* integer-digit count then the decimal-digit count, after X and after Y;
\* and this is the text the unit test asserts.
C6_CoordinateFormat ==
    IsCoordinateFormat =>
        LET rule == "%FSLAX" \o Decimal(subject.int) \o Decimal(subject.dec)
                    \o "Y" \o Decimal(subject.int) \o Decimal(subject.dec) \o "*%"
        IN  /\ Rendered => Succeeded /\ Text = rule
            /\ IsSome(expected) => Unwrap(expected) = rule

C6_Witness ==
    /\ subject = CoordinateFormat(2, 5)
    /\ Succeeded
    /\ Text = "%FSLAX25Y25*%"

\* The doubled form: the first argument twice after X, the second twice
\* after Y.
Doubled(x, y) ==
    "%FSLAX" \o Decimal(x) \o Decimal(x) \o "Y" \o Decimal(y) \o Decimal(y) \o "*%"

\* C7 as stated: CoordinateFormat(x, y) renders in the doubled form, and
\* the unit test asserts the doubled form.
C7_Original ==
    IsCoordinateFormat =>
        /\ Rendered => Succeeded /\ Text = Doubled(subject.int, subject.dec)
        /\ IsSome(expected) => Unwrap(expected) = Doubled(subject.int, subject.dec)

\* C7 as amended: after "%FSLA" come two blocks, the axis letter X and then
\* the axis letter Y, each followed by the first argument and then the
\* second; the text (rendered, or asserted by the unit test) is the doubled
\* form only when the two arguments are equal.
C7_Amended ==
    IsCoordinateFormat =>
        LET block(l) == l \o Decimal(subject.int) \o Decimal(subject.dec)
            holds(t) ==
                /\ t = "%FSLA" \o block("X") \o block("Y") \o "*%"
                /\ t = Doubled(subject.int, subject.dec) => subject.int = subject.dec
        IN  /\ Rendered => Succeeded /\ holds(Text)
            /\ IsSome(expected) => holds(Unwrap(expected))

C7_Witness ==
    /\ IsCoordinateFormat
    /\ subject.int = 1
    /\ subject.dec = 6
    /\ Succeeded
    /\ Text = "%FSLAX16Y16*%"
    /\ Text # Doubled(1, 6)

IsNumChar(c) == c \in {"0", "1", "2", "3", "4", "5", "6", "7", "8", "9", "."}

\* r is a decimal in the compact form: a digit before any point, at most
\* one point, no point without a fraction, no trailing zero in a fraction.
CompactDecimal(r) ==
    /\ Len(r) > 0
    /\ CharAt(r, 1) # "."
    /\ CharAt(r, Len(r)) # "."
    /\ Cardinality({i \in 1 .. Len(r) : CharAt(r, i) = "."}) <= 1
    /\ IndexOf(r, ".") # 0 => CharAt(r, Len(r)) # "0"

\* Every maximal run of digits and points of t is a compact decimal, and t
\* has no plus sign.
CompactNumbers(t) ==
    /\ IndexOf(t, "+") = 0
    /\ \A i \in 1 .. Len(t) : \A j \in i .. Len(t) :
        /\ \A k \in i .. j : IsNumChar(CharAt(t, k))
        /\ i = 1 \/ ~IsNumChar(CharAt(t, i - 1))
        /\ j = Len(t) \/ ~IsNumChar(CharAt(t, j + 1))
        => CompactDecimal(SubSeq(t, i, j))

EmitsDecimals ==
    \/ subject.ty = "ApertureDefinition"
    \/ subject.ty = "ExtendedCode" /\ subject.e = "StepAndRepeatOpen"

DigitValue(c) == IndexOf("0123456789", c) - 1

RECURSIVE ParseNat(_)
ParseNat(t) ==
    IF t = "" THEN 0
    ELSE 10 * ParseNat(SubSeq(t, 1, Len(t) - 1)) + DigitValue(CharAt(t, Len(t)))

\* The magnitude a decimal text denotes: its digits over 10^(digits after
\* the point).
ParseDecimal(t) ==
    LET p == IndexOf(t, ".")
    IN  IF p = 0 THEN [m |-> ParseNat(t), s |-> 0]
        ELSE [m |-> ParseNat(SubSeq(t, 1, p - 1) \o SubSeq(t, p + 1, Len(t))),
              s |-> Len(t) - p]

SameMagnitude(a, b) == a.m * Pow10(b.s) = b.m * Pow10(a.s)

\* The decimals of a Circle definition's text t parse back to the circle's
\* diameter and hole diameter.
CircleParsesBack(ad, t) ==
    LET body == SubSeq(t, IndexOf(t, ",") + 1, Len(t))
        q == IndexOf(body, "X")
        first == IF q = 0 THEN body ELSE SubSeq(body, 1, q - 1)
        second == SubSeq(body, q + 1, Len(body))
    IN  /\ IndexOf(t, ",") # 0
        /\ SameMagnitude(ParseDecimal(first), ad.aperture.diameter)
        /\ IsSome(ad.aperture.hole_diameter) <=> q # 0
        /\ q # 0 => SameMagnitude(ParseDecimal(second),
                                  Unwrap(ad.aperture.hole_diameter))

IsFiniteCircle ==
    /\ subject.ty = "ApertureDefinition"
    /\ subject.aperture.shape = "Circle"
    /\ ApertureFinite(subject.aperture)

\* C9: the text of a successfully rendered decimal parses back to the same
\* magnitude; two decimals rendered one after the other have the same text
\* only if they are the same magnitude; and the decimals in the text a
\* Circle definition renders to, and in the text the unit test asserts for
\* one, parse back to its diameters.
C9_RoundTrip ==
    /\ subject.ty = "f64" /\ Succeeded =>
        /\ SameMagnitude(ParseDecimal(Text), subject)
        /\ IsSome(prev) /\ Unwrap(prev).res.ok /\ Unwrap(prev).res.text = Text
            => SameMagnitude(Unwrap(prev).val, subject)
    /\ IsFiniteCircle /\ Succeeded => CircleParsesBack(subject, Text)
    /\ IsFiniteCircle /\ IsSome(expected) => CircleParsesBack(subject, Unwrap(expected))

C9_Witness ==
    /\ subject = Fin(30, 1)
    /\ Succeeded
    /\ Text = "3"
    /\ IsSome(prev)
    /\ Unwrap(prev).val = Fin(30, 2)
    /\ Unwrap(prev).res.text = "0.3"

\* The subject is a function code: a GCode, MCode or DCode, bare or wrapped
\* in FunctionCode or Command, or the Operation a DCode wraps.
IsFunctionCode ==
    \/ subject.ty \in {"GCode", "MCode", "DCode", "FunctionCode", "Operation"}
    \/ subject.ty = "Command" /\ subject.c.ty = "FunctionCode"

IsExtendedCode ==
    \/ subject.ty = "ExtendedCode"
    \/ subject.ty = "Command" /\ subject.c.ty = "ExtendedCode"

Payload == IF subject.ty = "FunctionCode" THEN subject.fc ELSE subject.c

FunctionShape(t) == EndsWith(t, "*") /\ ~StartsWith(t, "%")

ExtendedShape(t) == StartsWith(t, "%") /\ EndsWith(t, "*%")

\* C10: the text of a successfully rendered function code ends with "*" and
\* does not start with "%"; the text of an extended code starts with "%"
\* and ends with "*%"; a FunctionCode or Command renders to exactly what the
\* payload it was built from rendered to; and the texts the unit tests
\* assert have these shapes.
C10_Delimiters ==
    /\ IsFunctionCode /\ Succeeded => FunctionShape(Text)
    /\ IsExtendedCode /\ Succeeded => ExtendedShape(Text)
    /\ subject.ty \in {"FunctionCode", "Command"} /\ Rendered /\ IsSome(prev)
        => Unwrap(prev).val = Payload /\ Unwrap(result) = Unwrap(prev).res
    /\ IsFunctionCode /\ IsSome(expected) => FunctionShape(Unwrap(expected))
    /\ IsExtendedCode /\ IsSome(expected) => ExtendedShape(Unwrap(expected))
    /\ subject.ty \in {"FunctionCode", "Command"} /\ IsSome(expected)
        => Unwrap(expected) = to_code(Payload).text

C10_Witness ==
    /\ subject.ty = "Command"
    /\ subject.c.ty = "FunctionCode"
    /\ subject.c.fc.ty = "DCode"
    /\ subject.c.fc.d = "Operation"
    /\ IsSome(prev)
    /\ Succeeded
    /\ Text = "X1Y-2I2147483647D01*"

====
